---- MODULE Spec2Model ----
(***************************************************************************)
(* Group-membership transactions of src/app.py: the /create-group and      *)
(* /join-group handlers running as concurrent requests against one         *)
(* Firestore database.  Every access to the database is one step of a      *)
(* request; the code between two accesses is local to the request and      *)
(* belongs to the step of the access that precedes it.                     *)
(*                                                                         *)
(* A Firestore transaction (@firestore.transactional) is modelled as the   *)
(* client library runs it: the function body reads a snapshot and buffers  *)
(* its writes, the commit applies all buffered writes at once when no      *)
(* document read by the transaction has changed since it was read, and     *)
(* otherwise the body is run again, up to MAX_ATTEMPTS times.              *)
(*                                                                         *)
(* Spec is the system over a store that works as its contract says.        *)
(* SpecFault adds the failure of the store inside a transaction, which the *)
(* handlers answer with "Server error"; a transaction that raises has      *)
(* written nothing.  The "user" collection belongs to another service and  *)
(* does not change.                                                        *)
(***************************************************************************)
EXTENDS Naturals, Sequences, FiniteSets, Bags, TLC

\* ------------------------------------------------------------------ bounds

\* Requests in flight at the same time.
NumProcs == 2

\* Requests served in one behaviour.
MaxCalls == 3

\* ------------------------------------------------------- program constants

\* len(password) < 8 is rejected by create_group.
MIN_PASSWORD_LEN == 8

\* Attempts of one transaction (db.transaction() default max_attempts).
MAX_ATTEMPTS == 5

\* ------------------------------------------------------------------ inputs

Whitespace == {" "}

\* str.lower() on the characters used by the inputs.
LowerChar(c) ==
    CASE c = "S" -> "s"
      [] c = "G" -> "g"
      [] OTHER -> c

\* Raw "name" fields of the request body: one that is empty once stripped,
\* two spellings of one group name, and a second group name.
RawNames ==
    { <<" ">>,
      <<" ", "S", "g", " ">>,
      <<"s", "g">>,
      <<"S", " ", "G">> }

Pw(c, n) == [i \in 1 .. n |-> c]

\* Raw "password" fields: empty, the shortest, one below the minimum length,
\* and two different passwords of exactly the minimum length.
Passwords ==
    { Pw("p", 0), Pw("p", 1), Pw("p", MIN_PASSWORD_LEN - 1),
      Pw("p", MIN_PASSWORD_LEN), Pw("q", MIN_PASSWORD_LEN) }

\* uid values produced by verify_token; "ghost" has no document in "user".
Uids == {"u1", "u2", "ghost"}

\* The salts bcrypt.gensalt() draws.
Salts == {"s1"}

\* ------------------------------------------------------- pure functions

RECURSIVE LStrip(_)
LStrip(s) ==
    IF s # <<>> /\ Head(s) \in Whitespace THEN LStrip(Tail(s)) ELSE s

RECURSIVE RStrip(_)
RStrip(s) ==
    IF s # <<>> /\ s[Len(s)] \in Whitespace
    THEN RStrip(SubSeq(s, 1, Len(s) - 1))
    ELSE s

\* str.strip()
Strip(s) == RStrip(LStrip(s))

\* str.lower()
Lower(s) == [i \in 1 .. Len(s) |-> LowerChar(s[i])]

\* Normalization that forgets to lowercase.
NormalizeStripOnly(raw) == Strip(raw)

\* data.get("name", "").strip().lower()
Normalize(raw) == Lower(Strip(raw))

\* No hashing: the password itself is stored.
HashpwPlaintext(password, salt) == password

\* bcrypt.hashpw(password, salt): the version tag, the salt, and a digest
\* that depends on every character of the password and on the salt.
Hashpw(password, salt) ==
    <<"$2b$", salt>> \o [i \in 1 .. Len(password) |-> password[i] \o salt]

\* A check that accepts every password.
CheckpwAcceptsAll(password, hashed) == TRUE

\* bcrypt.checkpw(password, hashed): hash the password again with the salt
\* of the stored hash and compare.
Checkpw(password, hashed) ==
    /\ Len(hashed) >= 2
    /\ Hashpw(password, hashed[2]) = hashed

\* dict.get(key, default)
DictGet(d, k, default) == IF k \in DOMAIN d THEN d[k] ELSE default

\* ---------------------------------------------------------- the database

\* A collection is a function from the keys of its documents to their data.
EmptyCollection == <<>>

\* DocumentReference.get() / Transaction.get(): a snapshot.
Get(coll, key) ==
    IF key \in DOMAIN coll
    THEN [exists |-> TRUE, data |-> coll[key]]
    ELSE [exists |-> FALSE]

\* Transaction.set(ref, data) at commit: create or overwrite the document.
Set(coll, key, data) ==
    [k \in (DOMAIN coll) \cup {key} |-> IF k = key THEN data ELSE coll[k]]

\* The documents of the "user" collection: u2 has no photoUrl field.
UserDocs ==
    [u \in {"u1", "u2"} |->
        IF u = "u1"
        THEN [username |-> "alice", photoUrl |-> "alice.png"]
        ELSE [username |-> "bob"]]

\* ------------------------------------------------------------- responses

Response(status, body) == [status |-> status, body |-> body]

Success(name) == Response(200, [success |-> TRUE, groupId |-> name])
MissingFields == Response(400, [error |-> "Missing fields"])
PasswordTooShort == Response(400, [error |-> "Password too short"])
UserNotFound == Response(404, [error |-> "User not found"])
GroupAlreadyExists == Response(400, [error |-> "Group name already taken"])
GroupNotFound == Response(404, [error |-> "Group not found"])
CorruptedGroupRecord == Response(500, [error |-> "Corrupted group"])
IncorrectPassword == Response(403, [error |-> "Incorrect password"])
TransientStoreError == Response(500, [error |-> "Server error"])

NoResponse == Response(0, [pending |-> TRUE])

\* ------------------------------------------------------------------ state

VARIABLES
    user,        \* collection "user": uid -> profile document
    groups,      \* collection "groups": name -> group document
    members,     \* collections "groups/{name}/members": <<name, uid>> -> document
    userGroups,  \* collections "user/{uid}/groups": <<uid, name>> -> document
    clock,       \* the server's commit time (firestore.SERVER_TIMESTAMP)
    requests,    \* the requests in flight (a bag: workers are interchangeable),
                 \* each with its position, arguments and locals; history
                 \* fields: wrote (the documents it wrote), before (what
                 \* existed when it arrived) and retries (how often the
                 \* caller has run it again after "Server error")
    finished,    \* the request that has just returned, with its response
    calls,       \* requests accepted so far
    succeeded    \* history: how often each request returned success

vars ==
    <<user, groups, members, userGroups, clock, requests, finished, calls,
      succeeded>>

store == <<groups, members, userGroups>>

NoRequest ==
    [pc |-> "none", op |-> "none", uid |-> "", rawName |-> <<>>,
     password |-> <<>>, name |-> <<>>, hashed_pw |-> <<>>, username |-> "",
     photo_url |-> "", snapshot |-> <<>>, attempts |-> 0, wrote |-> {},
     before |-> [group |-> FALSE, member |-> FALSE], retries |-> 0,
     response |-> NoResponse]

Init ==
    /\ user = UserDocs
    /\ groups = EmptyCollection
    /\ members = EmptyCollection
    /\ userGroups = EmptyCollection
    /\ clock = 1
    /\ requests = EmptyBag
    /\ finished = NoRequest
    /\ calls = 0
    /\ succeeded = EmptyBag

\* ------------------------------------------------------- request helpers

\* The request returns: its locals are dropped; its arguments, its history
\* and its response stay until the response is delivered.
Finish(r, response) ==
    [NoRequest EXCEPT
        !.pc = "done", !.op = r.op, !.uid = r.uid, !.rawName = r.rawName,
        !.password = r.password, !.name = r.name, !.wrote = r.wrote,
        !.attempts = r.attempts, !.before = r.before, !.retries = r.retries,
        !.hashed_pw = IF response.status = 200 THEN r.hashed_pw ELSE <<>>,
        !.response = response]

\* The request r goes on as r2, or returns when r2 is a finished request.
Move(r, r2) ==
    IF r2.pc = "done"
    THEN /\ requests' = requests (-) SetToBag({r})
         /\ finished' = r2
    ELSE /\ requests' = (requests (-) SetToBag({r})) (+) SetToBag({r2})
         /\ finished' = finished

\* One more success of the request with these arguments.
Record(r) ==
    succeeded (+) SetToBag({[op |-> r.op, uid |-> r.uid, name |-> r.name,
                             password |-> r.password,
                             hashed_pw |-> r.hashed_pw]})

\* A response is delivered as soon as the request has returned: a response
\* waiting for delivery touches nothing, so no request sees the difference.
Delivered == finished = NoRequest

\* A worker is free to accept a request.
Accepts ==
    /\ Delivered
    /\ calls < MaxCalls
    /\ BagCardinality(requests) < NumProcs

\* The request r is in flight at position pc and takes its next step.
Runs(r, pc) ==
    /\ Delivered
    /\ r.pc = pc

\* The length check off by one.
TooShortOffByOne(password) == Len(password) < MIN_PASSWORD_LEN - 1

\* if len(password) < 8
TooShort(password) == Len(password) < MIN_PASSWORD_LEN

\* if not name or not password
FieldsMissing(name, password) == name = <<>> \/ password = <<>>

\* --------------------------------------------------------- the documents

\* The group document with the hash under another field name.
GroupDocHashMisnamed(r, ts) ==
    [name |-> r.name, password_hash |-> r.hashed_pw, createdAt |-> ts,
     createdBy |-> [uid |-> r.uid, username |-> r.username,
                    photoUrl |-> r.photo_url]]

\* groups/{name}
GroupDoc(r, ts) ==
    [name |-> r.name, passwordHash |-> r.hashed_pw, createdAt |-> ts,
     createdBy |-> [uid |-> r.uid, username |-> r.username,
                    photoUrl |-> r.photo_url]]

\* groups/{name}/members/{uid}
MemberDoc(r, ts) ==
    [role |-> "member", username |-> r.username, photoUrl |-> r.photo_url,
     joinedAt |-> ts]

\* user/{uid}/groups/{name}
UserGroupDoc(r, ts) ==
    [name |-> r.name, username |-> r.username, photoUrl |-> r.photo_url,
     role |-> "member", joinedAt |-> ts]

\* A buffered tx.set(ref, data).
Write(coll, key, data) == [coll |-> coll, key |-> key, data |-> data]

\* The commit applies every buffered write of one collection, in order.
RECURSIVE Apply(_, _, _)
Apply(coll, name, writes) ==
    IF writes = <<>> THEN coll
    ELSE LET w == Head(writes)
         IN  Apply(IF w.coll = name THEN Set(coll, w.key, w.data) ELSE coll,
                   name, Tail(writes))

\* Check-then-write: the commit never looks at what the transaction read.
ConflictNeverDetected(read, current) == FALSE

\* The commit is refused when a document the transaction read has changed.
Conflict(read, current) == read # current

\* A commit: all buffered writes at once, stamped with the commit time.
Commit(writes) ==
    /\ groups' = Apply(groups, "groups", writes)
    /\ members' = Apply(members, "members", writes)
    /\ userGroups' = Apply(userGroups, "userGroups", writes)
    /\ clock' = IF writes = <<>> THEN clock ELSE clock + 1

Refs(writes) ==
    {[coll |-> writes[i].coll, key |-> writes[i].key] : i \in DOMAIN writes}

\* A transaction with a single attempt: a refused commit raises at once.
RetryGivesUp(r) == Finish(r, TransientStoreError)

\* The commit was refused: run the body again, or give up with an exception
\* that is not "taken".
Retry(r) ==
    IF r.attempts >= MAX_ATTEMPTS
    THEN Finish(r, TransientStoreError)
    ELSE [r EXCEPT !.pc = IF r.op = "create" THEN "transaction_create"
                          ELSE "transaction_join",
                   !.attempts = r.attempts + 1, !.snapshot = <<>>]

\* ------------------------------------------------------------ create_group

\* transaction_create without the write of the creator's membership.
TransactionCreateWritesNoMember(r, ts) ==
    << Write("groups", r.name, GroupDoc(r, ts)),
       Write("userGroups", <<r.uid, r.name>>, UserGroupDoc(r, ts)) >>

\* The writes transaction_create buffers after it read the group absent.
TransactionCreateWrites(r, ts) ==
    << Write("groups", r.name, GroupDoc(r, ts)),
       Write("members", <<r.name, r.uid>>, MemberDoc(r, ts)),
       Write("userGroups", <<r.uid, r.name>>, UserGroupDoc(r, ts)) >>

\* What exists when the request of u for the group name arrives.
Before(name, u) ==
    [group |-> name \in DOMAIN groups, member |-> <<name, u>> \in DOMAIN members]

\* create_group up to the transaction: validation, hashing, the requester.
CreateGroupRequest(u, raw, pw, salt) ==
    LET name == Normalize(raw)
        r0 == [NoRequest EXCEPT !.op = "create", !.uid = u, !.rawName = raw,
                                !.password = pw, !.name = name,
                                !.before = Before(name, u)]
        r1 == [r0 EXCEPT !.hashed_pw = Hashpw(pw, salt)]
        user_doc == Get(user, u)
    IN  IF FieldsMissing(name, pw) THEN Finish(r0, MissingFields)
        ELSE IF TooShort(pw) THEN Finish(r0, PasswordTooShort)
        ELSE IF ~user_doc.exists THEN Finish(r1, UserNotFound)
        ELSE [r1 EXCEPT
                !.pc = "transaction_create",
                !.username = DictGet(user_doc.data, "username", ""),
                !.photo_url = DictGet(user_doc.data, "photoUrl", ""),
                !.attempts = 1]

\* A /create-group request arrives and runs up to its transaction.
CreateGroupBegin ==
    /\ Accepts
    /\ \E u \in Uids, raw \in RawNames, pw \in Passwords, salt \in Salts :
         Move(NoRequest, CreateGroupRequest(u, raw, pw, salt))
    /\ calls' = calls + 1
    /\ UNCHANGED <<user, groups, members, userGroups, clock, succeeded>>

\* transaction_create without `if group_snapshot.exists: raise`.
TransactionCreateReadNoCheck ==
    \E r \in BagToSet(requests) :
        /\ Runs(r, "transaction_create")
        /\ Move(r, [r EXCEPT !.pc = "commit_create",
                             !.snapshot = Get(groups, r.name)])
        /\ UNCHANGED <<user, groups, members, userGroups, clock, calls, succeeded>>

\* transaction_create: read the group; raise when the name is taken.
TransactionCreateRead ==
    \E r \in BagToSet(requests) :
        LET group_snapshot == Get(groups, r.name)
        IN  /\ Runs(r, "transaction_create")
            /\ Move(r, IF group_snapshot.exists
                       THEN Finish(r, GroupAlreadyExists)
                       ELSE [r EXCEPT !.pc = "commit_create",
                                      !.snapshot = group_snapshot])
            /\ UNCHANGED <<user, groups, members, userGroups, clock, calls, succeeded>>

\* The commit of transaction_create, or another attempt after a conflict.
TransactionCreateCommit ==
    \E r \in BagToSet(requests) :
        LET writes == TransactionCreateWrites(r, clock)
        IN  /\ Runs(r, "commit_create")
            /\ IF Conflict(r.snapshot, Get(groups, r.name))
               THEN /\ Move(r, Retry(r))
                    /\ UNCHANGED <<user, groups, members, userGroups, clock,
                                   calls, succeeded>>
               ELSE /\ Commit(writes)
                    /\ Move(r, Finish([r EXCEPT !.wrote = Refs(writes)],
                                      Success(r.name)))
                    /\ succeeded' = Record(r)
                    /\ UNCHANGED <<user, calls>>

\* -------------------------------------------------------------- join_group

\* transaction_join that writes both documents whatever it read.
TransactionJoinWritesAlways(r, member_snapshot, user_group_snapshot, ts) ==
    << Write("members", <<r.name, r.uid>>, MemberDoc(r, ts)),
       Write("userGroups", <<r.uid, r.name>>, UserGroupDoc(r, ts)) >>

\* transaction_join without the write of the UserGroupIndex entry.
TransactionJoinWritesNoIndex(r, member_snapshot, user_group_snapshot, ts) ==
    IF ~member_snapshot.exists
    THEN <<Write("members", <<r.name, r.uid>>, MemberDoc(r, ts))>>
    ELSE <<>>

\* The writes transaction_join buffers, given the two snapshots it read.
TransactionJoinWrites(r, member_snapshot, user_group_snapshot, ts) ==
    (IF ~member_snapshot.exists
     THEN <<Write("members", <<r.name, r.uid>>, MemberDoc(r, ts))>>
     ELSE <<>>)
    \o
    (IF ~user_group_snapshot.exists
     THEN <<Write("userGroups", <<r.uid, r.name>>, UserGroupDoc(r, ts))>>
     ELSE <<>>)

\* join_group that looks the requester up before it reads the group.
JoinGroupRequestUserFirst(groupsColl, u, raw, pw) ==
    LET name == Normalize(raw)
        r0 == [NoRequest EXCEPT !.op = "join", !.uid = u, !.rawName = raw,
                                !.password = pw, !.name = name,
                                !.before = Before(name, u)]
        group_doc == Get(groupsColl, name)
        stored_hash == DictGet(group_doc.data, "passwordHash", <<>>)
    IN  IF FieldsMissing(name, pw) THEN Finish(r0, MissingFields)
        ELSE IF ~Get(user, u).exists THEN Finish(r0, UserNotFound)
        ELSE IF ~group_doc.exists THEN Finish(r0, GroupNotFound)
        ELSE IF stored_hash = <<>> THEN Finish(r0, CorruptedGroupRecord)
        ELSE IF ~Checkpw(pw, stored_hash) THEN Finish(r0, IncorrectPassword)
        ELSE [r0 EXCEPT !.pc = "join_user"]

\* join_group that checks the password of a group that exists and lets the
\* requester join a name without group document.
JoinGroupRequestNoGroupCheck(groupsColl, u, raw, pw) ==
    LET name == Normalize(raw)
        r0 == [NoRequest EXCEPT !.op = "join", !.uid = u, !.rawName = raw,
                                !.password = pw, !.name = name,
                                !.before = Before(name, u)]
        group_doc == Get(groupsColl, name)
    IN  IF FieldsMissing(name, pw) THEN Finish(r0, MissingFields)
        ELSE IF group_doc.exists
                /\ ~Checkpw(pw, DictGet(group_doc.data, "passwordHash", <<>>))
             THEN Finish(r0, IncorrectPassword)
        ELSE [r0 EXCEPT !.pc = "join_user"]

\* join_group up to the lookup of the requester: validation, the read of
\* the group, the password.
JoinGroupRequest(groupsColl, u, raw, pw) ==
    LET name == Normalize(raw)
        r0 == [NoRequest EXCEPT !.op = "join", !.uid = u, !.rawName = raw,
                                !.password = pw, !.name = name,
                                !.before = Before(name, u)]
        group_doc == Get(groupsColl, name)
        stored_hash == DictGet(group_doc.data, "passwordHash", <<>>)
    IN  IF FieldsMissing(name, pw) THEN Finish(r0, MissingFields)
        ELSE IF ~group_doc.exists THEN Finish(r0, GroupNotFound)
        ELSE IF stored_hash = <<>> THEN Finish(r0, CorruptedGroupRecord)
        ELSE IF ~Checkpw(pw, stored_hash) THEN Finish(r0, IncorrectPassword)
        ELSE [r0 EXCEPT !.pc = "join_user"]

\* A /join-group request arrives and runs up to the lookup of the requester.
JoinGroupBegin ==
    /\ Accepts
    /\ \E u \in Uids, raw \in RawNames, pw \in Passwords :
         Move(NoRequest, JoinGroupRequest(groups, u, raw, pw))
    /\ calls' = calls + 1
    /\ UNCHANGED <<user, groups, members, userGroups, clock, succeeded>>

\* The lookup of the requester.
JoinGroupUser ==
    \E r \in BagToSet(requests) :
        LET user_doc == Get(user, r.uid)
        IN  /\ Runs(r, "join_user")
            /\ Move(r, IF ~user_doc.exists THEN Finish(r, UserNotFound)
                       ELSE [r EXCEPT
                               !.pc = "transaction_join",
                               !.username = DictGet(user_doc.data, "username", ""),
                               !.photo_url = DictGet(user_doc.data, "photoUrl", ""),
                               !.attempts = 1])
            /\ UNCHANGED <<user, groups, members, userGroups, clock, calls, succeeded>>

\* transaction_join: all reads first.
TransactionJoinRead ==
    \E r \in BagToSet(requests) :
        LET member_snapshot == Get(members, <<r.name, r.uid>>)
            user_group_snapshot == Get(userGroups, <<r.uid, r.name>>)
        IN  /\ Runs(r, "transaction_join")
            /\ Move(r, [r EXCEPT !.pc = "commit_join",
                                 !.snapshot = <<member_snapshot, user_group_snapshot>>])
            /\ UNCHANGED <<user, groups, members, userGroups, clock, calls, succeeded>>

\* The commit of transaction_join, or another attempt after a conflict.
TransactionJoinCommit ==
    \E r \in BagToSet(requests) :
        LET writes == TransactionJoinWrites(r, r.snapshot[1], r.snapshot[2], clock)
            current == << Get(members, <<r.name, r.uid>>),
                          Get(userGroups, <<r.uid, r.name>>) >>
        IN  /\ Runs(r, "commit_join")
            /\ IF Conflict(r.snapshot, current)
               THEN /\ Move(r, Retry(r))
                    /\ UNCHANGED <<user, groups, members, userGroups, clock,
                                   calls, succeeded>>
               ELSE /\ Commit(writes)
                    /\ Move(r, Finish([r EXCEPT !.wrote = Refs(writes)],
                                      Success(r.name)))
                    /\ succeeded' = Record(r)
                    /\ UNCHANGED <<user, calls>>

\* ------------------------------------------------------------ environment

\* The response is delivered.
Return ==
    /\ finished # NoRequest
    /\ finished' = NoRequest
    /\ UNCHANGED <<user, groups, members, userGroups, clock, requests, calls,
                   succeeded>>

\* A commit that is not atomic: the store fails after the first write of
\* transaction_create has been applied.
StoreFaultMidCommit ==
    \E r \in BagToSet(requests) :
        /\ Delivered
        /\ r.pc = "commit_create"
        /\ groups' = Set(groups, r.name, GroupDoc(r, clock))
        /\ Move(r, Finish(r, TransientStoreError))
        /\ UNCHANGED <<user, members, userGroups, clock, calls, succeeded>>

\* The store fails inside a transaction: the call raises, nothing is written.
StoreFault ==
    \E r \in BagToSet(requests) :
        /\ Delivered
        /\ r.pc \in {"transaction_create", "commit_create",
                     "transaction_join", "commit_join"}
        /\ Move(r, Finish(r, TransientStoreError))
        /\ UNCHANGED <<user, groups, members, userGroups, clock, calls, succeeded>>

Next ==
    \/ CreateGroupBegin
    \/ TransactionCreateRead
    \/ TransactionCreateCommit
    \/ JoinGroupBegin
    \/ JoinGroupUser
    \/ TransactionJoinRead
    \/ TransactionJoinCommit
    \/ Return

\* The store works as its contract says.
Spec == Init /\ [][Next]_vars

NextFault ==
    \/ Next
    \/ StoreFault

\* The store may also fail inside any transaction.
SpecFault == Init /\ [][NextFault]_vars

\* The caller got "Server error" and runs the whole operation again from
\* the top, with the same arguments.
CallerRetry ==
    /\ finished.response = TransientStoreError
    /\ calls < MaxCalls
    /\ \E salt \in Salts :
         LET again == IF finished.op = "create"
                      THEN CreateGroupRequest(finished.uid, finished.rawName,
                                              finished.password, salt)
                      ELSE JoinGroupRequest(groups, finished.uid,
                                            finished.rawName, finished.password)
             r2 == [again EXCEPT !.retries = finished.retries + 1]
         IN  IF r2.pc = "done"
             THEN /\ requests' = requests
                  /\ finished' = r2
             ELSE /\ requests' = requests (+) SetToBag({r2})
                  /\ finished' = NoRequest
    /\ calls' = calls + 1
    /\ UNCHANGED <<user, groups, members, userGroups, clock, succeeded>>

NextRetry ==
    \/ NextFault
    \/ CallerRetry

\* The store may fail, and callers may run a failed operation again.
SpecRetry == Init /\ [][NextRetry]_vars

\* -------------------------------------------------------------- properties

\* The profile summary the handlers copy from the document of user u.
Summary(u) ==
    [uid |-> u, username |-> DictGet(user[u], "username", ""),
     photoUrl |-> DictGet(user[u], "photoUrl", "")]

\* The successful requests with operation op on the group name g.
Successes(op, g) == {e \in DOMAIN succeeded : e.op = op /\ e.name = g}

\* A finished create_group whose arguments pass validation and whose
\* requester exists.
ValidCreate(f) ==
    /\ f.pc = "done"
    /\ f.op = "create"
    /\ f.name # <<>>
    /\ Len(f.password) >= 8
    /\ f.uid \in DOMAIN user

\* C1: among the create_group requests for one free name, run in any
\* interleaving, exactly one returns success and every other one returns
\* "Group name already taken"; exactly one group document exists under the
\* name, and it holds the creator summary and the password hash of the request
\* that returned success.
C1_CreateExactlyOnce ==
    /\ \A e \in DOMAIN succeeded :
          e.op = "create" =>
             /\ succeeded[e] = 1
             /\ Successes("create", e.name) = {e}
             /\ e.name \in DOMAIN groups
    /\ \A g \in DOMAIN groups :
          \E e \in Successes("create", g) :
             /\ groups[g].name = g
             /\ groups[g].passwordHash = e.hashed_pw
             /\ groups[g].createdBy = Summary(e.uid)
    /\ ValidCreate(finished) =>
          /\ finished.response \in {Success(finished.name), GroupAlreadyExists}
          /\ Successes("create", finished.name) # {}
          /\ finished.response = Success(finished.name) =>
                /\ groups[finished.name].passwordHash = finished.hashed_pw
                /\ groups[finished.name].createdBy = Summary(finished.uid)

\* A create_group that found the name free, lost the race to a concurrent
\* create_group at its commit, ran again and returned "already taken".
C1_Witness ==
    /\ ValidCreate(finished)
    /\ ~finished.before.group
    /\ finished.attempts = 2
    /\ finished.response = GroupAlreadyExists

\* C2: a Membership document (g, u) exists if and only if the UserGroupIndex
\* entry (u, g) exists, in every state, between any two commits.
C2_DualWrite ==
    /\ \A k \in DOMAIN members : <<k[2], k[1]>> \in DOMAIN userGroups
    /\ \A k \in DOMAIN userGroups : <<k[2], k[1]>> \in DOMAIN members

\* A join_group has just written the membership and the index entry of a
\* user who did not create the group.
C2_Witness ==
    /\ finished.op = "join"
    /\ Cardinality(finished.wrote) = 2
    /\ <<finished.name, finished.uid>> \in DOMAIN members
    /\ groups[finished.name].createdBy.uid # finished.uid
    /\ requests # EmptyBag

\* C4: the three documents of one create_group exist together: a group
\* document exists only with the membership and the index entry of its
\* creator written by the same commit, and no membership or index entry
\* exists for a name that has no group document.
C4_CreateAtomic ==
    /\ \A g \in DOMAIN groups :
          LET c == groups[g].createdBy.uid
          IN  /\ <<g, c>> \in DOMAIN members
              /\ <<c, g>> \in DOMAIN userGroups
              /\ members[<<g, c>>].joinedAt = groups[g].createdAt
              /\ userGroups[<<c, g>>].joinedAt = groups[g].createdAt
    /\ \A k \in DOMAIN members : k[1] \in DOMAIN groups
    /\ \A k \in DOMAIN userGroups : k[2] \in DOMAIN groups

\* A create_group has just committed its three documents while another
\* request is in flight.
C4_Witness ==
    /\ finished.op = "create"
    /\ Cardinality(finished.wrote) = 3
    /\ finished.name \in DOMAIN groups
    /\ requests # EmptyBag

\* The password is the one that was hashed into the stored hash.
PasswordMatches(password, hashed) ==
    \E salt \in Salts : hashed = Hashpw(password, salt)

\* The step returns a response: the request in `finished` after the step
\* has finished in this step.
Returns == finished = NoRequest /\ finished'.pc = "done"

\* C3: join_group by a user who already is a member of the group, with the
\* correct password, returns success with the group identifier and leaves
\* the three collections as they are: nothing is added, and the membership
\* and the index entry keep every field.
C3_JoinIdempotent ==
    [][ ( /\ Returns
          /\ finished'.op = "join"
          /\ finished'.before.member
          /\ finished'.name \in DOMAIN groups
          /\ PasswordMatches(finished'.password,
                             groups[finished'.name].passwordHash) )
        => ( /\ finished'.response = Success(finished'.name)
             /\ finished'.wrote = {}
             /\ store' = store ) ]_vars

\* A user who joined a group created by somebody else has joined it again.
C3_Witness ==
    /\ finished.op = "join"
    /\ finished.before.member
    /\ finished.response = Success(finished.name)
    /\ groups[finished.name].createdBy.uid # finished.uid

\* C5: a request that returns an error has written nothing, and the
\* collections change only in a step in which a request returns success.
C5_ErrorsWriteNothing ==
    [][ /\ store' # store =>
             /\ Returns
             /\ finished'.response.status = 200
             /\ finished'.wrote # {}
        /\ (Returns /\ finished'.response.status # 200) =>
             /\ store' = store
             /\ finished'.wrote = {} ]_vars

\* A create_group failed with "Server error" inside its transaction, after
\* it had read the name free, and the name is still free.
C5_Witness ==
    /\ finished.op = "create"
    /\ finished.response = TransientStoreError
    /\ finished.name \notin DOMAIN groups
    /\ groups # EmptyCollection

\* C6: join_group on a name without group document returns "Group not
\* found" for every non-empty password and every requester, and never goes
\* on to the password or the lookup of the requester.
C6_GroupNotFoundFirst ==
    /\ ( /\ finished.pc = "done"
         /\ finished.op = "join"
         /\ finished.name # <<>>
         /\ finished.password # <<>>
         /\ ~finished.before.group )
       => finished.response = GroupNotFound
    /\ \A r \in BagToSet(requests) : r.op = "join" => r.before.group

\* A requester without user document asked to join a group that does not
\* exist, with a password that is the password of an existing group.
C6_Witness ==
    /\ finished.op = "join"
    /\ finished.uid \notin DOMAIN user
    /\ finished.response = GroupNotFound
    /\ \E g \in DOMAIN groups :
          PasswordMatches(finished.password, groups[g].passwordHash)

\* C7: join_group on an existing group with a password that does not verify
\* returns "Incorrect password" and writes nothing; every membership and
\* every index entry belongs to a user whose create_group of that group, or
\* whose join_group with the group's password, returned success.
C7_PasswordNeeded ==
    /\ ( /\ finished.pc = "done"
         /\ finished.op = "join"
         /\ finished.name # <<>>
         /\ finished.password # <<>>
         /\ finished.before.group
         /\ ~PasswordMatches(finished.password,
                             groups[finished.name].passwordHash) )
       => /\ finished.response = IncorrectPassword
          /\ finished.wrote = {}
    /\ \A k \in (DOMAIN members) \cup {<<i[2], i[1]>> : i \in DOMAIN userGroups} :
          \E e \in DOMAIN succeeded :
             /\ e.name = k[1]
             /\ e.uid = k[2]
             /\ \/ e.op = "create"
                \/ PasswordMatches(e.password, groups[k[1]].passwordHash)

\* An existing user tried a wrong password on an existing group and is no
\* member of it.
C7_Witness ==
    /\ finished.op = "join"
    /\ finished.uid \in DOMAIN user
    /\ Len(finished.password) >= 8
    /\ finished.response = IncorrectPassword
    /\ <<finished.name, finished.uid>> \notin DOMAIN members

\* The normalized form of a raw name, stated on its own: the characters from
\* the first to the last one that is not a blank, each in lower case.
NormalForm(raw) ==
    LET keep == {i \in 1 .. Len(raw) : raw[i] # " "}
        lo == CHOOSE i \in keep : \A j \in keep : i <= j
        hi == CHOOSE i \in keep : \A j \in keep : j <= i
        low == [c \in {"S", "G"} |-> IF c = "S" THEN "s" ELSE "g"]
    IN  IF keep = {} THEN <<>>
        ELSE [i \in 1 .. (hi - lo + 1) |->
                 LET c == raw[lo + i - 1]
                 IN  IF c \in DOMAIN low THEN low[c] ELSE c]

\* The error messages of the two handlers.
ErrorMessages ==
    {"Missing fields", "Password too short", "User not found",
     "Group name already taken", "Group not found", "Corrupted group",
     "Incorrect password", "Server error"}

\* Hashes another run could have stored in a group document: of another
\* password, and of the same passwords with another salt.
OtherHashes ==
    { <<"$2b$", "s1", "xs1">>,
      <<"$2b$", "s2", "ps2", "ps2", "ps2", "ps2", "ps2", "ps2", "ps2", "ps2">>,
      <<"$2b$", "s2", "qs2", "qs2", "qs2", "qs2", "qs2", "qs2", "qs2", "qs2">> }

\* C8: the stored passwordHash of a group is never the password given to
\* create_group; a response holds nothing but the success flag with the
\* normalized name, or one of the fixed error messages; and in the same
\* state with any other hash stored in any group, every step whose outcome
\* does not rest on bcrypt.checkpw has the same outcome (the response of a
\* join_group that returned before or without verifying against that group,
\* and what transaction_create reads and its commit decides).
C8_HashConfidential ==
    /\ \A g \in DOMAIN groups :
          \A e \in Successes("create", g) : groups[g].passwordHash # e.password
    /\ \A r \in BagToSet(requests) :
          r.op = "create" => r.hashed_pw # r.password
    /\ finished.pc = "done" =>
          IF finished.response.status = 200
          THEN finished.response.body =
                  [success |-> TRUE, groupId |-> NormalForm(finished.rawName)]
          ELSE /\ DOMAIN finished.response.body = {"error"}
               /\ finished.response.body.error \in ErrorMessages
    /\ (finished.pc = "done" /\ finished.op = "join") =>
          \A g \in DOMAIN groups, h \in OtherHashes :
             ( \/ finished.response \in {MissingFields, GroupNotFound}
               \/ /\ finished.response = IncorrectPassword
                  /\ finished.name # g )
             => JoinGroupRequest([groups EXCEPT ![g].passwordHash = h],
                                 finished.uid, finished.rawName,
                                 finished.password).response
                = finished.response
    /\ \A r \in BagToSet(requests) :
          r.op = "create" =>
             \A g \in DOMAIN groups, h \in OtherHashes :
                LET other == [groups EXCEPT ![g].passwordHash = h]
                IN  /\ Get(other, r.name).exists = Get(groups, r.name).exists
                    /\ r.pc = "commit_create" =>
                          Conflict(r.snapshot, Get(other, r.name))
                          = Conflict(r.snapshot, Get(groups, r.name))

\* A create_group has stored a hash that is not its password and that its
\* password verifies against.
C8_Witness ==
    /\ finished.op = "create"
    /\ finished.response.status = 200
    /\ groups[finished.name].passwordHash # finished.password
    /\ Checkpw(finished.password, groups[finished.name].passwordHash)

\* C9: create_group with a non-empty name and a password of 1 to 7
\* characters returns "Password too short" and writes nothing, whoever the
\* requester is and whether or not the name is taken; a password of 8
\* characters passes the validation, and when the requester exists the
\* request succeeds if the name is free and returns "already taken" if not.
C9_MinimumPasswordLength ==
    [][ ( /\ Returns
          /\ finished'.op = "create"
          /\ NormalForm(finished'.rawName) # <<>> )
        => /\ Len(finished'.password) \in 1 .. 7 =>
                /\ finished'.response = PasswordTooShort
                /\ store' = store
           /\ Len(finished'.password) = 8 =>
                /\ finished'.response # PasswordTooShort
                /\ finished'.uid \in DOMAIN user =>
                      finished'.response =
                         IF finished'.name \in DOMAIN groups
                         THEN GroupAlreadyExists
                         ELSE Success(finished'.name) ]_vars

\* A password of 7 characters was refused for a requester without user
\* document and a name that is taken.
C9_Witness ==
    /\ finished.op = "create"
    /\ Len(finished.password) = 7
    /\ finished.uid \notin DOMAIN user
    /\ finished.before.group
    /\ finished.response = PasswordTooShort

\* C10: both handlers key the group by the normalized form of the raw name:
\* a create_group that succeeds stores the group under the normal form and
\* returns it; a valid create_group whose normal form is taken returns
\* "already taken"; a join_group whose normal form names an existing group,
\* with that group's password and an existing requester, returns the normal
\* form and the requester is a member of that group.
C10_NormalizedKey ==
    [][ ( /\ Returns
          /\ NormalForm(finished'.rawName) # <<>> )
        => LET f == finished'
               n == NormalForm(f.rawName)
           IN  /\ (f.op = "create" /\ f.response.status = 200) =>
                     /\ f.response = Success(n)
                     /\ n \notin DOMAIN groups
                     /\ n \in DOMAIN groups'
                     /\ groups'[n].name = n
                     /\ <<n, f.uid>> \in DOMAIN members'
                     /\ <<f.uid, n>> \in DOMAIN userGroups'
               /\ ( /\ f.op = "create"
                    /\ Len(f.password) >= 8
                    /\ f.uid \in DOMAIN user
                    /\ n \in DOMAIN groups )
                  => f.response = GroupAlreadyExists
               /\ ( /\ f.op = "join"
                    /\ f.uid \in DOMAIN user
                    /\ n \in DOMAIN groups
                    /\ PasswordMatches(f.password, groups[n].passwordHash) )
                  => /\ f.response = Success(n)
                     /\ <<n, f.uid>> \in DOMAIN members'
                     /\ <<f.uid, n>> \in DOMAIN userGroups' ]_vars

\* A user has joined a group through a raw name that is not in normal form.
C10_Witness ==
    /\ finished.op = "join"
    /\ finished.response.status = 200
    /\ finished.rawName # NormalForm(finished.rawName)
    /\ Cardinality(finished.wrote) = 2
    /\ <<NormalForm(finished.rawName), finished.uid>> \in DOMAIN members

\* No document that exists is changed or removed by the step.
NoneOverwritten(coll, collAfter) ==
    \A k \in DOMAIN coll : k \in DOMAIN collAfter /\ collAfter[k] = coll[k]

\* The collection with the document d under the key k, unless k has one.
Added(coll, k, d) == IF k \in DOMAIN coll THEN coll ELSE (k :> d) @@ coll

\* The response and the collections after one execution of the operation of
\* the finished request f, with valid arguments, on the collections as they
\* are, committed at the time ts.
SingleExecution(f, ts) ==
    LET who == Summary(f.uid)
        member == [role |-> "member", username |-> who.username,
                   photoUrl |-> who.photoUrl, joinedAt |-> ts]
        entry == [name |-> f.name, username |-> who.username,
                  photoUrl |-> who.photoUrl, role |-> "member", joinedAt |-> ts]
        group == [name |-> f.name, passwordHash |-> f.hashed_pw,
                  createdAt |-> ts, createdBy |-> who]
    IN  IF f.op = "create"
        THEN IF f.name \in DOMAIN groups
             THEN <<GroupAlreadyExists, groups, members, userGroups>>
             ELSE <<Success(f.name),
                    (f.name :> group) @@ groups,
                    (<<f.name, f.uid>> :> member) @@ members,
                    (<<f.uid, f.name>> :> entry) @@ userGroups>>
        ELSE <<Success(f.name), groups,
               Added(members, <<f.name, f.uid>>, member),
               Added(userGroups, <<f.uid, f.name>>, entry)>>

\* C11: running create_group or join_group again from the top with the same
\* arguments after "Server error", any number of times and interleaved with
\* other requests, is safe: no step changes or removes a document that
\* exists, a run that fails again leaves the collections as they are, and
\* the run that returns leaves the response and the collections of a single
\* execution of the operation at the time of its commit.
C11_RetrySafe ==
    [][ /\ NoneOverwritten(groups, groups')
        /\ NoneOverwritten(members, members')
        /\ NoneOverwritten(userGroups, userGroups')
        /\ (Returns /\ finished'.retries > 0) =>
              IF finished'.response = TransientStoreError
              THEN store' = store
              ELSE <<finished'.response, groups', members', userGroups'>>
                     = SingleExecution(finished', clock) ]_vars

\* A create_group failed with "Server error", was run again by its caller
\* and has committed its three documents while another request is in flight.
C11_Witness ==
    /\ finished.op = "create"
    /\ finished.retries > 0
    /\ finished.response = Success(finished.name)
    /\ Cardinality(finished.wrote) = 3
    /\ requests # EmptyBag

\* C12: join_group requests of one user for one existing group, with the
\* correct password, run in any interleaving: each returns success; the one
\* that commits while the user is no member writes the membership and the
\* index entry, both with the time of that commit, and adds nothing else;
\* each other one commits without a write and leaves every field of the two
\* documents as it is; so one membership and one index entry exist for the
\* pair, written by the same commit.
C12_ConcurrentJoin ==
    [][ /\ ( /\ Returns
             /\ finished'.op = "join"
             /\ finished'.uid \in DOMAIN user
             /\ finished'.name \in DOMAIN groups
             /\ PasswordMatches(finished'.password,
                                groups[finished'.name].passwordHash) )
           => LET m == <<finished'.name, finished'.uid>>
                  i == <<finished'.uid, finished'.name>>
              IN  /\ finished'.response = Success(finished'.name)
                  /\ groups' = groups
                  /\ IF m \in DOMAIN members
                     THEN /\ finished'.wrote = {}
                          /\ members' = members
                          /\ userGroups' = userGroups
                     ELSE /\ finished'.wrote = {[coll |-> "members", key |-> m],
                                                [coll |-> "userGroups", key |-> i]}
                          /\ DOMAIN members' = DOMAIN members \cup {m}
                          /\ DOMAIN userGroups' = DOMAIN userGroups \cup {i}
                          /\ members'[m].joinedAt = clock
                          /\ userGroups'[i].joinedAt = clock
        /\ NoneOverwritten(members, members')
        /\ NoneOverwritten(userGroups, userGroups')
        /\ \A k \in DOMAIN members :
              /\ <<k[2], k[1]>> \in DOMAIN userGroups
              /\ userGroups[<<k[2], k[1]>>].joinedAt = members[k].joinedAt
              /\ userGroups[<<k[2], k[1]>>].username = members[k].username
              /\ userGroups[<<k[2], k[1]>>].photoUrl = members[k].photoUrl ]_vars

\* Two join_group requests of one user who was no member ran together: this
\* one read the membership absent, was refused at its commit because the
\* other one had written it, ran again and committed without a write.
C12_Witness ==
    /\ finished.op = "join"
    /\ ~finished.before.member
    /\ finished.attempts = 2
    /\ finished.wrote = {}
    /\ finished.response = Success(finished.name)
    /\ <<finished.name, finished.uid>> \in DOMAIN members

\* C13: every membership (g, u) and every index entry (u, g) names a group g
\* that has a group document, in every state, although join_group reads the
\* group and checks the password before its transaction: a join_group past
\* that read still finds its group. So the membership and the index entry
\* that create_group writes without reading them are new documents: the
\* commit of create_group never overwrites one.
C13_ReferentialIntegrity ==
    [][ /\ \A k \in DOMAIN members' : k[1] \in DOMAIN groups'
        /\ \A k \in DOMAIN userGroups' : k[2] \in DOMAIN groups'
        /\ \A r \in BagToSet(requests') :
              r.op = "join" => r.name \in DOMAIN groups'
        /\ ( /\ Returns
             /\ finished'.op = "create"
             /\ finished'.response.status = 200 )
           => /\ finished'.name \notin DOMAIN groups
              /\ <<finished'.name, finished'.uid>> \notin DOMAIN members
              /\ <<finished'.uid, finished'.name>> \notin DOMAIN userGroups
              /\ \A k \in DOMAIN members : members'[k] = members[k]
              /\ \A k \in DOMAIN userGroups : userGroups'[k] = userGroups[k] ]_vars

\* A create_group of a user who is a member of another group has committed
\* its three documents while a join_group that read its group before its
\* transaction waits for its commit.
C13_Witness ==
    /\ finished.op = "create"
    /\ Cardinality(finished.wrote) = 3
    /\ \E k \in DOMAIN members :
          k[2] = finished.uid /\ k[1] # finished.name
    /\ \E r \in BagToSet(requests) :
          r.op = "join" /\ r.pc = "commit_join" /\ r.name # finished.name

\* C14: every group document carries a password hash that is not empty, no
\* step of create_group or join_group changes or removes a group document
\* that exists, and join_group never returns "Corrupted group".
C14_GroupImmutable ==
    [][ /\ \A g \in DOMAIN groups' :
              DictGet(groups'[g], "passwordHash", <<>>) # <<>>
        /\ NoneOverwritten(groups, groups')
        /\ finished'.response # CorruptedGroupRecord
        /\ \A r \in BagToSet(requests') :
              r.op = "create" => r.hashed_pw # <<>> ]_vars

\* A join_group has read the stored hash of a group created with the
\* shortest password that is accepted, found it not empty and returned
\* success, while a second group exists.
C14_Witness ==
    /\ finished.op = "join"
    /\ finished.response = Success(finished.name)
    /\ Len(finished.password) = MIN_PASSWORD_LEN
    /\ Cardinality(finished.wrote) = 2
    /\ Cardinality(DOMAIN groups) = 2

====
